---- MODULE Spec2Model ----
(***************************************************************************)
(* Model of the Map component of interactive-geo-mapping-react-leaflet     *)
(* (src/unnamed/part_000) and of the Dashboard aggregation                 *)
(* (src/src/components/Dashboard.jsx).                                     *)
(*                                                                         *)
(* One step of the model is one complete event turn of the browser: the    *)
(* handler, the re-render it schedules and the persistence effect of       *)
(* lines 234-247.  File reads are asynchronous: the turn that selects a    *)
(* file only registers the callback, a later turn runs it.                 *)
(*                                                                         *)
(* Text is a sequence of one-character strings.  Coordinates are integers  *)
(* counting units of 0.00001 degree; CSV text carries them as decimal      *)
(* degrees, as the JavaScript number-to-string conversion prints them.     *)
(***************************************************************************)
EXTENDS Integers, Sequences, FiniteSets, TLC

(* ------------------------------ bounds -------------------------------- *)
\* the largest clock reading (milliseconds) any handler observes
MaxClock == 3
\* a click adds a marker while all projects together hold fewer markers than
\* this, an import while the marker list shown does
MaxMarkers == 3
\* projects in the registry
MaxMaps == 2
\* a shape is drawn while all projects together hold fewer shapes than this
MaxShapes == 1
\* file reads of one kind in flight at once
MaxReaders == 1

(* ------------------------------- text --------------------------------- *)
QUOTE == "\""
COMMA == ","
NEWLINE == "\n"

S_General == <<"G","e","n","e","r","a","l">>
S_Restaurant == <<"R","e","s","t","a","u","r","a","n","t">>
S_College == <<"C","o","l","l","e","g","e">>
S_Event == <<"E","v","e","n","t">>
S_Shop == <<"S","h","o","p">>
S_All == <<"A","l","l">>
S_NewMarker == <<"N","e","w"," ","M","a","r","k","e","r">>
S_ImportedMarker == <<"I","m","p","o","r","t","e","d"," ","M","a","r","k","e","r">>
S_DefaultMap == <<"D","e","f","a","u","l","t"," ","M","a","p">>

\* the category keys, in declaration order
CATEGORIES == <<S_General, S_Restaurant, S_College, S_Event, S_Shop>>

UpperCase == <<"A","B","C","D","E","F","G","H","I","J","K","L","M","N","O","P","Q","R","S","T","U","V","W","X","Y","Z">>
LowerCase == <<"a","b","c","d","e","f","g","h","i","j","k","l","m","n","o","p","q","r","s","t","u","v","w","x","y","z">>

\* String.prototype.toLowerCase on one character
toLowerChar(c) ==
  IF \E i \in 1..26 : UpperCase[i] = c
  THEN LowerCase[CHOOSE i \in 1..26 : UpperCase[i] = c]
  ELSE c

toLowerCase(s) == [i \in 1..Len(s) |-> toLowerChar(s[i])]

IsSpace(c) == c \in {" ", "\t", "\r", "\n"}

RECURSIVE trimStart(_)
trimStart(s) ==
  IF s # <<>> /\ IsSpace(Head(s)) THEN trimStart(Tail(s)) ELSE s

RECURSIVE trimEnd(_)
trimEnd(s) ==
  IF s # <<>> /\ IsSpace(s[Len(s)]) THEN trimEnd(SubSeq(s, 1, Len(s) - 1)) ELSE s

\* String.prototype.trim
trim(s) == trimEnd(trimStart(s))

\* s.replace(/"/g, '""')
RECURSIVE doubleQuotes(_)
doubleQuotes(s) ==
  IF s = <<>> THEN <<>>
  ELSE (IF Head(s) = QUOTE THEN <<QUOTE, QUOTE>> ELSE <<Head(s)>>) \o doubleQuotes(Tail(s))

\* h.replace(/^"|"$/g, "")
stripQuotes(h) ==
  LET a == IF h # <<>> /\ Head(h) = QUOTE THEN Tail(h) ELSE h
  IN IF a # <<>> /\ a[Len(a)] = QUOTE THEN SubSeq(a, 1, Len(a) - 1) ELSE a

\* Array.prototype.join over a sequence of texts
RECURSIVE join(_, _)
join(parts, sep) ==
  IF parts = <<>> THEN <<>>
  ELSE IF Len(parts) = 1 THEN parts[1]
  ELSE parts[1] \o sep \o join(Tail(parts), sep)

\* String.prototype.split on a one-character separator
RECURSIVE split(_, _)
split(s, sep) ==
  LET seps == {i \in 1..Len(s) : s[i] = sep}
  IN IF seps = {} THEN <<s>>
     ELSE LET first == CHOOSE i \in seps : \A j \in seps : i <= j
          IN <<SubSeq(s, 1, first - 1)>> \o split(SubSeq(s, first + 1, Len(s)), sep)

\* text.split(/\r?\n/): a carriage return right before the line feed belongs to the separator
splitLines(text) ==
  LET raw == split(text, NEWLINE)
  IN [i \in 1..Len(raw) |->
        IF i < Len(raw) /\ raw[i] # <<>> /\ raw[i][Len(raw[i])] = "\r"
        THEN SubSeq(raw[i], 1, Len(raw[i]) - 1)
        ELSE raw[i]]

(* ------------------------------ numbers ------------------------------- *)
\* coordinate units per degree
UnitsPerDegree == 100000
FracDigits == 5

Digits == <<"0","1","2","3","4","5","6","7","8","9">>
IsDigit(c) == \E i \in 1..10 : Digits[i] = c
DigitVal(c) == (CHOOSE i \in 1..10 : Digits[i] = c) - 1

RECURSIVE natToText(_)
natToText(n) ==
  IF n < 10 THEN <<Digits[n + 1]>> ELSE Append(natToText(n \div 10), Digits[(n % 10) + 1])

RECURSIVE stripZeros(_)
stripZeros(s) ==
  IF s # <<>> /\ s[Len(s)] = "0" THEN stripZeros(SubSeq(s, 1, Len(s) - 1)) ELSE s

RECURSIVE padLeft(_, _)
padLeft(s, n) == IF Len(s) < n THEN padLeft(<<"0">> \o s, n) ELSE s

\* Number -> String, as Array.prototype.join applies it to m.position[k]:
\* the shortest decimal, "-" for negatives, no fraction for whole degrees
numberToString(v) ==
  LET a == IF v < 0 THEN 0 - v ELSE v
      ip == a \div UnitsPerDegree
      fp == a % UnitsPerDegree
      frac == stripZeros(padLeft(natToText(fp), FracDigits))
  IN (IF v < 0 THEN <<"-">> ELSE <<>>) \o natToText(ip)
       \o (IF fp = 0 THEN <<>> ELSE <<".">> \o frac)

RECURSIVE digitsValue(_, _)
digitsValue(s, acc) ==
  IF s = <<>> THEN acc ELSE digitsValue(Tail(s), acc * 10 + DigitVal(Head(s)))

AllDigits(s) == \A i \in 1..Len(s) : IsDigit(s[i])

RECURSIVE padRight(_, _)
padRight(s, n) == IF Len(s) < n THEN padRight(Append(s, "0"), n) ELSE s

\* Number(text) for the decimal literals of the StringNumericLiteral grammar:
\* optional sign, digits, optional fraction; "" is 0; anything else is NaN.
\* The fraction is read to FracDigits places (the resolution of the model).
Number(text) ==
  LET t == trim(text)
      neg == t # <<>> /\ Head(t) = "-"
      u == IF t # <<>> /\ Head(t) \in {"-", "+"} THEN Tail(t) ELSE t
      parts == split(u, ".")
      ip == parts[1]
      fp == IF Len(parts) = 2 THEN parts[2] ELSE <<>>
      wellFormed == /\ Len(parts) <= 2
                    /\ AllDigits(ip) /\ AllDigits(fp)
                    /\ Len(ip) + Len(fp) > 0
                    /\ Len(ip) <= 3 /\ Len(fp) <= FracDigits
      mag == digitsValue(ip, 0) * UnitsPerDegree + digitsValue(padRight(fp, FracDigits), 0)
  IN IF t = <<>> THEN [nan |-> FALSE, val |-> 0]
     ELSE IF ~wellFormed THEN [nan |-> TRUE, val |-> 0]
     ELSE [nan |-> FALSE, val |-> IF neg THEN 0 - mag ELSE mag]

LatMax == 90 * UnitsPerDegree
LngMax == 180 * UnitsPerDegree

\* variant: the longitude bounds are not checked
invalidLatOnly(lat, lng) ==
  \/ lat.nan \/ lng.nan
  \/ lat.val < 0 - LatMax \/ lat.val > LatMax

\* !isFinite(lat) || !isFinite(lng) || lat < -90 || lat > 90 || lng < -180 || lng > 180
invalidLatLng(lat, lng) ==
  \/ lat.nan \/ lng.nan
  \/ lat.val < 0 - LatMax \/ lat.val > LatMax
  \/ lng.val < 0 - LngMax \/ lng.val > LngMax

Num(v) == [nan |-> FALSE, val |-> v]

(* ----------------------------- CSV codec ------------------------------ *)
S_HTitle == <<"T","i","t","l","e">>
S_HDescription == <<"D","e","s","c","r","i","p","t","i","o","n">>
S_HLatitude == <<"L","a","t","i","t","u","d","e">>
S_HLongitude == <<"L","o","n","g","i","t","u","d","e">>
S_HCategory == <<"C","a","t","e","g","o","r","y">>

\* m.title || "" wrapped in quotes with embedded quotes doubled
quoted(s) == <<QUOTE>> \o doubleQuotes(s) \o <<QUOTE>>

\* one CSV line of markersToCSVString: r.join(",")
csvRow(m) ==
  join(<<quoted(m.title), quoted(m.description),
         numberToString(m.position[1]), numberToString(m.position[2]),
         m.category>>, <<COMMA>>)

\* markersToCSVString(markersArr)
markersToCSVString(markersArr) ==
  LET headers == <<S_HTitle, S_HDescription, S_HLatitude, S_HLongitude, S_HCategory>>
      rows == [i \in 1..Len(markersArr) |-> csvRow(markersArr[i])]
  IN join(<<join(headers, <<COMMA>>)>> \o rows, <<NEWLINE>>)

\* one pass of the character loop of parseCSV at index k of the line; st.i is the
\* loop counter, which the escaped-quote branch advances by one more
parseStep(ln, st, k) ==
  IF st.i # k THEN st
  ELSE LET ch == ln[k]
       IN IF ch = QUOTE /\ k + 1 <= Len(ln) /\ ln[k + 1] = QUOTE
            THEN [st EXCEPT !.i = k + 2, !.cur = Append(st.cur, QUOTE)]
          ELSE IF ch = QUOTE
            THEN [st EXCEPT !.i = k + 1, !.inQuotes = ~st.inQuotes]
          ELSE IF ch = COMMA /\ ~st.inQuotes
            THEN [st EXCEPT !.i = k + 1, !.cur = <<>>, !.values = Append(st.values, st.cur)]
          ELSE [st EXCEPT !.i = k + 1, !.cur = Append(st.cur, ch)]

\* the character loop of parseCSV over indices lo..hi of one line, in order; the loop
\* ends once the counter has passed the end of the line
RECURSIVE parseLineFrom(_, _, _, _)
parseLineFrom(ln, st, lo, hi) ==
  IF lo > hi THEN st
  ELSE IF lo = hi THEN parseStep(ln, st, lo)
  ELSE LET mid == (lo + hi) \div 2
           left == parseLineFrom(ln, st, lo, mid)
       IN IF left.i > Len(ln) THEN left ELSE parseLineFrom(ln, left, mid + 1, hi)

parseLine(ln) ==
  LET st == parseLineFrom(ln, [i |-> 1, cur |-> <<>>, inQuotes |-> FALSE, values |-> <<>>],
                          1, Len(ln))
      values == Append(st.values, st.cur)
  IN [k \in 1..Len(values) |-> trim(values[k])]

\* parseCSV(text) -> { headers, rows }
parseCSV(text) ==
  LET lines == SelectSeq(splitLines(text), LAMBDA l : Len(trim(l)) > 0)
  IN IF Len(lines) = 0 THEN [headers |-> <<>>, rows |-> <<>>]
     ELSE LET hs == split(lines[1], COMMA)
          IN [headers |-> [k \in 1..Len(hs) |-> stripQuotes(trim(hs[k]))],
              rows |-> [k \in 1..(Len(lines) - 1) |-> parseLine(lines[k + 1])]]

\* headers.findIndex((h) => /^(a|b|...)$/i.test(h)), one-based; 0 stands for -1
findIndex(headers, names) ==
  IF \E k \in 1..Len(headers) : toLowerCase(headers[k]) \in names
  THEN CHOOSE k \in 1..Len(headers) :
         /\ toLowerCase(headers[k]) \in names
         /\ \A j \in 1..(k - 1) : toLowerCase(headers[j]) \notin names
  ELSE 0

TitleNames == {toLowerCase(S_HTitle)}
DescNames == {toLowerCase(S_HDescription), <<"d","e","s","c">>}
LatNames == {toLowerCase(S_HLatitude), <<"l","a","t">>}
LngNames == {toLowerCase(S_HLongitude), <<"l","o","n">>, <<"l","n","g">>, <<"l","o","n","g">>}
CatNames == {toLowerCase(S_HCategory), <<"c","a","t">>}

headerIndex(headers) ==
  [title |-> findIndex(headers, TitleNames),
   desc |-> findIndex(headers, DescNames),
   lat |-> findIndex(headers, LatNames),
   lng |-> findIndex(headers, LngNames),
   cat |-> findIndex(headers, CatNames)]

\* r[k], with "" standing for undefined: every use is through || or !
cell(r, k) == IF k >= 1 /\ k <= Len(r) THEN r[k] ELSE <<>>

\* v || d on text
orElse(v, d) == IF v = <<>> THEN d ELSE v

(* ------------------------- duplicate detection ------------------------ *)
\* default of the thresholdMeters parameter
thresholdMeters == 5
\* length in millimetres of one coordinate unit of arc on the sphere of
\* radius R = 6371e3: R * (pi / 180) * 0.00001 = 1.11195 m
UnitMilliMeters == 1112
\* deltas beyond this many units are farther than any threshold in use
NearUnits == 10
FullTurn == 360 * UnitsPerDegree

Abs(x) == IF x < 0 THEN 0 - x ELSE x

\* sin^2(dLambda / 2) has period 360 degrees and is even
lngDelta(lng1, lng2) ==
  LET d == Abs(lng2 - lng1) % FullTurn
  IN IF d > FullTurn - d THEN FullTurn - d ELSE d

\* d <= thresholdMeters for the haversine distance d of lines 304-312.
\* For points whose latitudes are within a few units of the equator, or
\* whose latitudes differ by more than NearUnits, d = R * c agrees with the
\* planar distance of the unit deltas far below the one-unit resolution.
withinThreshold(lat, lng, lat2, lon2, threshold) ==
  LET dLat == Abs(lat2 - lat)
      dLng == lngDelta(lng, lon2)
  IN /\ dLat <= NearUnits
     /\ dLng <= NearUnits
     /\ (dLat * dLat + dLng * dLng) * UnitMilliMeters * UnitMilliMeters
          <= (threshold * 1000) * (threshold * 1000)

\* variant: the loop returns after comparing with the first marker only
isDuplicateFirstOnly(lat, lng, mks) ==
  /\ Len(mks) >= 1
  /\ withinThreshold(lat, lng, mks[1].position[1], mks[1].position[2], thresholdMeters)

\* isDuplicate(lat, lng) closed over the marker list of one render
isDuplicate(lat, lng, mks) ==
  \E k \in 1..Len(mks) :
    withinThreshold(lat, lng, mks[k].position[1], mks[k].position[2], thresholdMeters)

(* --------------------------- CSV import loop --------------------------- *)
MissingCoordinates == "missing coordinates"
InvalidLatLng == "invalid lat/lng"
DuplicateSkipped == "duplicate marker skipped"
\* errors.slice(0, 20)
ErrorsShown == 20

NoImage == "null"

\* the body of rows.forEach((r, i) => ...) for the row at zero-based index i,
\* applied to the accumulators (imported, errors, newMarkers)
importRow(r, i, idx, mks, now, acc) ==
  LET title == IF idx.title # 0 THEN orElse(cell(r, idx.title), <<>>) ELSE <<>>
      desc == IF idx.desc # 0 THEN orElse(cell(r, idx.desc), <<>>) ELSE <<>>
      latRaw == cell(r, idx.lat)
      lngRaw == cell(r, idx.lng)
      cat == IF idx.cat # 0 THEN orElse(cell(r, idx.cat), S_General) ELSE S_General
      lat == Number(latRaw)
      lng == Number(lngRaw)
      nm == [id |-> now + i,
             position |-> <<lat.val, lng.val>>,
             title |-> orElse(title, S_ImportedMarker),
             description |-> orElse(desc, <<>>),
             category |-> IF \E c \in 1..Len(CATEGORIES) : CATEGORIES[c] = cat
                          THEN cat ELSE S_General,
             image |-> NoImage]
  IN IF latRaw = <<>> \/ lngRaw = <<>>
       THEN [acc EXCEPT !.errors = Append(@, [row |-> i + 2, msg |-> MissingCoordinates])]
     ELSE IF invalidLatLng(lat, lng)
       THEN [acc EXCEPT !.errors = Append(@, [row |-> i + 2, msg |-> InvalidLatLng])]
     ELSE IF isDuplicate(lat.val, lng.val, mks)
       THEN [acc EXCEPT !.errors = Append(@, [row |-> i + 2, msg |-> DuplicateSkipped])]
     ELSE [acc EXCEPT !.newMarkers = Append(@, nm), !.imported = @ + 1]

\* variant: the first row error ends the loop
RECURSIVE importLoopAbort(_, _, _, _, _, _)
importLoopAbort(rows, i, idx, mks, now, acc) ==
  IF i >= Len(rows) \/ acc.errors # <<>> THEN acc
  ELSE importLoopAbort(rows, i + 1, idx, mks, now, importRow(rows[i + 1], i, idx, mks, now, acc))

RECURSIVE importLoop(_, _, _, _, _, _)
importLoop(rows, i, idx, mks, now, acc) ==
  IF i >= Len(rows) THEN acc
  ELSE importLoop(rows, i + 1, idx, mks, now, importRow(rows[i + 1], i, idx, mks, now, acc))

\* the try block of reader.onload up to the store update: what the file yields
\* against the marker list mks the callback closed over
importMarkers(text, mks, now) ==
  LET parsed == parseCSV(text)
      idx == headerIndex(parsed.headers)
  IN IF idx.lat = 0 \/ idx.lng = 0
       THEN [missingColumns |-> TRUE, imported |-> 0, errors |-> <<>>, newMarkers |-> <<>>,
             rows |-> Len(parsed.rows)]
     ELSE [missingColumns |-> FALSE, rows |-> Len(parsed.rows)]
            @@ importLoop(parsed.rows, 0, idx, mks, now,
                          [imported |-> 0, errors |-> <<>>, newMarkers |-> <<>>])

(* ------------------------- the project registry ------------------------ *)
\* A JavaScript object with string keys: entries in insertion order.
ObjectKeys(obj) == [i \in 1..Len(obj) |-> obj[i].key]
hasKey(obj, k) == \E i \in 1..Len(obj) : obj[i].key = k
get(obj, k) == obj[CHOOSE i \in 1..Len(obj) : obj[i].key = k].val
\* { ...obj, [k]: v }: an existing key keeps its place, a new one goes last
spread(obj, k, v) ==
  IF hasKey(obj, k)
  THEN [i \in 1..Len(obj) |-> IF obj[i].key = k THEN [key |-> k, val |-> v] ELSE obj[i]]
  ELSE Append(obj, [key |-> k, val |-> v])
\* delete obj[k]
deleteKey(obj, k) == SelectSeq(obj, LAMBDA e : e.key # k)

DefaultKey == <<"default", 0>>
\* `map_${Date.now()}`
MapKey(now) == <<"map_", now>>

S_Undefined == <<"undefined">>
\* { default: { name: "Default Map", markers: [], shapes: [] } }
DefaultMaps == <<[key |-> DefaultKey,
                  val |-> [name |-> S_DefaultMap, markers |-> <<>>, shapes |-> <<>>]]>>

\* savedMaps[mapId]?.markers || []
markersOf(obj, k) == IF hasKey(obj, k) THEN get(obj, k).markers ELSE <<>>
shapesOf(obj, k) == IF hasKey(obj, k) THEN get(obj, k).shapes ELSE <<>>

\* localStorage holds text.  JSON.stringify writes every value of the
\* registry (text, finite numbers, null, arrays, plain objects) and
\* JSON.parse reads each back unchanged; the stored item is tagged as text.
NoItem == <<>>
JSONstringify(obj) == <<"json", obj>>
JSONparse(item) == item[2]

\* an item some other writer left: text that JSON.stringify did not write
Text(chars) == <<"text", chars>>
\* JSON.parse(item) throws a SyntaxError
parseThrows(item) == item[1] = "text" /\ item[2] \notin {<<"n","u","l","l">>}
\* JSON.parse(item) returns null
parsesToNull(item) == item[1] = "text" /\ item[2] = <<"n","u","l","l">>
\* `stored ? ... : ...`: null and the empty string are falsy
falsy(item) == item = NoItem \/ item = Text(<<>>)

(* ------------------------------- inputs -------------------------------- *)
\* map clicks: (lat, lng) in coordinate units; the last one is lng 181
ClickPoints == {<<0, 0>>, <<4, 2>>, <<0, 5>>, <<0, 181 * UnitsPerDegree>>}

\* what the user types into prompt(); ok = FALSE is Cancel
PromptInputs == {[ok |-> FALSE, text |-> <<>>],
                 [ok |-> TRUE, text |-> <<>>],
                 [ok |-> TRUE, text |-> <<" ", " ">>],
                 [ok |-> TRUE, text |-> <<" ", "A", " ">>]}

\* popup edits: (field, value)
EditInputs == {<<"title", <<"c", "a", "f">>>>}

\* reader.result of an image file
ImagePayloads == {"data:image/png"}

\* geometries the drawing tool reports
ShapeGeoms == {"polygon"}

CsvHeader == <<"l","a","t",",","l","n","g",",","t","i","t","l","e">>
CsvBadHeader == <<"t","i","t","l","e",",","c","a","t">>
RowOrigin == <<"0",",","0",",","a">>
RowNearOrigin == <<"0",",","0",".","0","0","0","0","2",",">>
RowNotANumber == <<"x",",","0",",","b">>
RowNoLatitude == <<",","0",".","0","0","0","0","9",",","c">>

\* the CSV files the user can pick: one with a row that is not a number, a
\* valid row, a row within the threshold of it and a row without latitude;
\* one without the required columns
CsvFiles == {join(<<CsvHeader, RowNotANumber, RowOrigin, RowNearOrigin, RowNoLatitude>>, <<NEWLINE>>),
             join(<<CsvBadHeader, <<"a",",","S","h","o","p">>>>, <<NEWLINE>>)}

(* -------------------------------- state -------------------------------- *)
VARIABLES
  markers,      \* useState([]) of line 211: the marker list shown
  shapes,       \* useState([]) of line 212: the shape list shown
  savedMaps,    \* the project registry of line 226
  currentMap,   \* the active project key of line 232
  storage,      \* localStorage item "maps"
  clock,        \* the last reading of Date.now()
  csvReaders,   \* FileReaders of onFileSelected whose onload has not run
  imageReaders, \* FileReaders of handleImageUpload whose onloadend has not run
  alert,        \* the dialog the last turn showed with alert() or confirm()
  download,     \* the text of the file exportCSV saved last
  searchTerm,   \* useState("") of line 213: the text of the search box
  selectedCategory \* useState("All") of line 214: the category selector

vars == <<markers, shapes, savedMaps, currentMap, storage, clock, csvReaders, imageReaders, alert,
          download, searchTerm, selectedCategory>>

NoAlert == [kind |-> "none", imported |-> 0, errors |-> <<>>]
Alert(kind) == [kind |-> kind, imported |-> 0, errors |-> <<>>]

\* Date.now() in a turn that assigns an id or a key: event turns are at least
\* a millisecond apart, and the model takes the next millisecond
Readings == {t \in {clock + 1} : t <= MaxClock}

\* variant: the lists shown are written into every entry
persistEveryEntry(prev, cm, mk, sh) ==
  [k \in 1..Len(spread(prev, cm, [name |-> S_Undefined, markers |-> mk, shapes |-> sh])) |->
     [spread(prev, cm, [name |-> S_Undefined, markers |-> mk, shapes |-> sh])[k]
        EXCEPT !.val.markers = mk, !.val.shapes = sh]]

\* The persistence effect of lines 234-247, run after a render in which
\* markers, shapes or currentMap changed: the updater applied to prev.
persist(prev, cm, mk, sh) ==
  spread(prev, cm,
         [name |-> IF hasKey(prev, cm) THEN get(prev, cm).name ELSE S_Undefined,
          markers |-> mk, shapes |-> sh])

\* The end of an event turn: the state the handler set is rendered and,
\* when a dependency of the effect changed, the effect writes the registry
\* and the storage item.
Turn(sm, cm, mk, sh, st, effect) ==
  /\ markers' = mk
  /\ shapes' = sh
  /\ currentMap' = cm
  /\ savedMaps' = (IF effect THEN persist(sm, cm, mk, sh) ELSE sm)
  /\ storage' = (IF effect THEN JSONstringify(persist(sm, cm, mk, sh)) ELSE st)

RECURSIVE countMarkers(_)
countMarkers(obj) ==
  IF obj = <<>> THEN 0 ELSE Len(Head(obj).val.markers) + countMarkers(Tail(obj))

\* markers held by all projects of the registry
TotalMarkers == countMarkers(savedMaps)

RECURSIVE countShapes(_)
countShapes(obj) ==
  IF obj = <<>> THEN 0 ELSE Len(Head(obj).val.shapes) + countShapes(Tail(obj))

\* shapes held by all projects of the registry
TotalShapes == countShapes(savedMaps)

\* a handler that returned before setting any state
NoChange == UNCHANGED <<markers, shapes, savedMaps, currentMap, storage>>

(* ------------------------------ process start -------------------------- *)
UncaughtError == "Uncaught error"

\* the initializer of line 226 throws on text JSON.parse rejects; with null
\* for the registry the first render throws on Object.keys(savedMaps).  React
\* unmounts the tree: no component state is left and no effect runs.
startupThrows(item) == ~falsy(item) /\ (parseThrows(item) \/ parsesToNull(item))

\* the component is on the page
Mounted == alert.kind # UncaughtError

\* The first render and its effects: the useState initializers of lines
\* 211-232, then the persistence effect on mount.
Startup(item) ==
  LET loaded == IF falsy(item) THEN DefaultMaps ELSE JSONparse(item)
  IN IF startupThrows(item)
       THEN /\ markers' = <<>> /\ shapes' = <<>> /\ currentMap' = DefaultKey
            /\ savedMaps' = <<>>
            /\ storage' = item
     ELSE Turn(loaded, DefaultKey, <<>>, <<>>, item, TRUE)

Init ==
  /\ clock = 0
  /\ csvReaders = {}
  /\ imageReaders = {}
  /\ alert = NoAlert
  /\ download = NoItem
  /\ searchTerm = <<>>
  /\ selectedCategory = S_All
  /\ markers = <<>>
  /\ shapes = <<>>
  /\ currentMap = DefaultKey
  /\ savedMaps = persist(DefaultMaps, DefaultKey, <<>>, <<>>)
  /\ storage = JSONstringify(persist(DefaultMaps, DefaultKey, <<>>, <<>>))

\* the page is loaded again: pending file reads die with the old page
Reload ==
  /\ Startup(storage)
  /\ csvReaders' = {}
  /\ imageReaders' = {}
  /\ alert' = (IF startupThrows(storage) THEN Alert(UncaughtError) ELSE NoAlert)
  /\ searchTerm' = <<>>
  /\ selectedCategory' = S_All
  /\ UNCHANGED <<clock, download>>

(* ------------------------------- markers ------------------------------- *)
newMarker(lat, lng, now) ==
  [id |-> now, position |-> <<lat, lng>>, title |-> S_NewMarker,
   description |-> <<>>, category |-> S_General, image |-> NoImage]

\* variant: the new marker is put in front, [newMarker, ...prev]
handleAddMarkerPrepend(lat, lng) ==
  IF invalidLatLng(Num(lat), Num(lng))
    THEN NoChange /\ alert' = Alert("Invalid latitude/longitude.") /\ UNCHANGED clock
  ELSE IF isDuplicate(lat, lng, markers)
    THEN NoChange /\ alert' = Alert("Duplicate marker detected") /\ UNCHANGED clock
  ELSE /\ TotalMarkers < MaxMarkers
       /\ \E now \in Readings :
            /\ clock' = now
            /\ Turn(savedMaps, currentMap, <<newMarker(lat, lng, now)>> \o markers,
                    shapes, storage, TRUE)
       /\ alert' = NoAlert

\* handleAddMarker(latlng)
handleAddMarker(lat, lng) ==
  IF invalidLatLng(Num(lat), Num(lng))
    THEN NoChange /\ alert' = Alert("Invalid latitude/longitude.") /\ UNCHANGED clock
  ELSE IF isDuplicate(lat, lng, markers)
    THEN NoChange /\ alert' = Alert("Duplicate marker detected") /\ UNCHANGED clock
  ELSE /\ TotalMarkers < MaxMarkers
       /\ \E now \in Readings :
            /\ clock' = now
            /\ Turn(savedMaps, currentMap, Append(markers, newMarker(lat, lng, now)),
                    shapes, storage, TRUE)
       /\ alert' = NoAlert

\* the click handler of AddMarker
AddMarker(lat, lng, inSearchBar) ==
  /\ UNCHANGED <<csvReaders, imageReaders>>
  /\ IF inSearchBar
       THEN NoChange /\ alert' = NoAlert /\ UNCHANGED clock
     ELSE IF isDuplicate(lat, lng, markers)
       THEN NoChange /\ alert' = Alert("A marker already exists near this location")
            /\ UNCHANGED clock
     ELSE handleAddMarker(lat, lng)

\* prev.map((m) => (m.id === id ? { ...m, [field]: value } : m))
setField(prev, id, field, value) ==
  [k \in 1..Len(prev) |-> IF prev[k].id = id THEN [prev[k] EXCEPT ![field] = value] ELSE prev[k]]

\* handleTextChange(id, field, value), from the popup of a rendered marker
handleTextChange(id, field, value) ==
  /\ Turn(savedMaps, currentMap, setField(markers, id, field, value), shapes, storage, TRUE)
  /\ alert' = NoAlert
  /\ UNCHANGED <<clock, csvReaders, imageReaders>>

\* the Delete Marker button: prev.filter((x) => x.id !== m.id)
deleteMarker(id) ==
  /\ Turn(savedMaps, currentMap, SelectSeq(markers, LAMBDA x : x.id # id), shapes, storage, TRUE)
  /\ alert' = NoAlert
  /\ UNCHANGED <<clock, csvReaders, imageReaders>>

\* handleImageUpload(e, id): starts the read, or returns when no file was chosen
\* (map: the project shown by the render whose popup started the read)
handleImageUpload(id, payload, hasFile) ==
  /\ NoChange
  /\ alert' = NoAlert
  /\ imageReaders' = (IF hasFile
                        THEN imageReaders \cup {[id |-> id, result |-> payload, map |-> currentMap]}
                      ELSE imageReaders)
  /\ UNCHANGED <<clock, csvReaders>>

\* reader.onloadend of handleImageUpload
imageLoaded(r) ==
  /\ imageReaders' = imageReaders \ {r}
  /\ Turn(savedMaps, currentMap, setField(markers, r.id, "image", r.result), shapes, storage, TRUE)
  /\ alert' = NoAlert
  /\ UNCHANGED <<clock, csvReaders>>

(* ------------------------------ CSV import ----------------------------- *)
\* what isDuplicate reads of the marker list it closed over: the positions
positionsOf(mks) == [k \in 1..Len(mks) |-> [position |-> mks[k].position]]

\* onFileSelected(e): starts the read; the onload callback closes over the
\* isDuplicate of this render, that is over this render's marker list
onFileSelected(text, hasFile) ==
  /\ NoChange
  /\ alert' = NoAlert
  /\ IF hasFile
       THEN /\ Cardinality(csvReaders) < MaxReaders
            /\ csvReaders' = csvReaders \cup {[text |-> text, markers |-> positionsOf(markers)]}
       ELSE csvReaders' = csvReaders
  /\ UNCHANGED <<clock, imageReaders>>

\* the text of alert(msg) after an import: the count and errors.slice(0, 20)
importAlert(res) ==
  [kind |-> "Import complete.", imported |-> res.imported,
   errors |-> SubSeq(res.errors, 1,
                     IF Len(res.errors) < ErrorsShown THEN Len(res.errors) ELSE ErrorsShown)]

\* reader.onload of onFileSelected; Date.now() is read for the rows accepted
csvLoaded(r) ==
  /\ csvReaders' = csvReaders \ {r}
  /\ UNCHANGED imageReaders
  /\ LET now == clock + 1
         res == importMarkers(r.text, r.markers, now)
     IN IF res.missingColumns
          THEN NoChange /\ UNCHANGED clock
               /\ alert' = Alert("CSV must include 'Latitude' and 'Longitude' columns.")
        ELSE IF res.newMarkers = <<>>
          THEN NoChange /\ UNCHANGED clock /\ alert' = importAlert(res)
        ELSE /\ Len(markers) < MaxMarkers
             /\ now \in Readings
             /\ clock' = now
             /\ Turn(savedMaps, currentMap, markers \o res.newMarkers, shapes, storage, TRUE)
             /\ alert' = importAlert(res)

(* -------------------------------- shapes ------------------------------- *)
\* updateShapes() after the drawing tool changed its layers; the layers mirror
\* the shape list (effect of lines 173-203), so the new list is the old one
\* with the drawn, edited or deleted layer applied
updateShapes(all) ==
  /\ Turn(savedMaps, currentMap, markers, all, storage, TRUE)
  /\ alert' = NoAlert
  /\ UNCHANGED <<clock, csvReaders, imageReaders>>

\* L.Draw.Event.CREATED
shapeCreated(g) ==
  /\ TotalShapes < MaxShapes
  /\ updateShapes(Append(shapes, g))

\* L.Draw.Event.EDITED
shapeEdited(k, g) ==
  /\ k \in 1..Len(shapes)
  /\ updateShapes([shapes EXCEPT ![k] = g])

\* L.Draw.Event.DELETED
shapeDeleted(k) ==
  /\ k \in 1..Len(shapes)
  /\ updateShapes(SubSeq(shapes, 1, k - 1) \o SubSeq(shapes, k + 1, Len(shapes)))

(* ------------------------------- projects ------------------------------ *)
\* variant: the key becomes active, the lists shown are not loaded
handleSelectMapKeepLists(mapId) ==
  /\ Turn(savedMaps, mapId, markers, shapes, storage, TRUE)
  /\ alert' = NoAlert
  /\ UNCHANGED <<clock, csvReaders, imageReaders>>

\* handleSelectMap(mapId), from the <select> whose options are the registry keys
handleSelectMap(mapId) ==
  /\ Turn(savedMaps, mapId, markersOf(savedMaps, mapId), shapesOf(savedMaps, mapId), storage, TRUE)
  /\ alert' = NoAlert
  /\ UNCHANGED <<clock, csvReaders, imageReaders>>

\* variant: only a cancelled prompt is rejected
blankCancelOnly(input) == ~input.ok

\* !newName?.trim()
blank(input) == ~input.ok \/ trim(input.text) = <<>>

\* variant: the marker and shape lists shown are not emptied
handleCreateMapKeepLists(input) ==
  /\ alert' = NoAlert
  /\ UNCHANGED <<csvReaders, imageReaders>>
  /\ IF blank(input) THEN NoChange /\ UNCHANGED clock
     ELSE /\ Len(savedMaps) < MaxMaps
          /\ \E now \in Readings :
               LET newId == MapKey(now)
                   updated == spread(savedMaps, newId,
                                     [name |-> trim(input.text), markers |-> <<>>, shapes |-> <<>>])
               IN /\ clock' = now
                  /\ Turn(updated, newId, markers, shapes, JSONstringify(updated), TRUE)

\* handleCreateMap()
handleCreateMap(input) ==
  /\ alert' = NoAlert
  /\ UNCHANGED <<csvReaders, imageReaders>>
  /\ IF blank(input) THEN NoChange /\ UNCHANGED clock
     ELSE /\ Len(savedMaps) < MaxMaps
          /\ \E now \in Readings :
               LET newId == MapKey(now)
                   updated == spread(savedMaps, newId,
                                     [name |-> trim(input.text), markers |-> <<>>, shapes |-> <<>>])
               IN /\ clock' = now
                  /\ Turn(updated, newId, <<>>, <<>>, JSONstringify(updated), TRUE)

\* variant: the updater of handleRenameMap does not write the storage item
handleRenameMapNoStore(input) ==
  /\ alert' = NoAlert
  /\ UNCHANGED <<clock, csvReaders, imageReaders>>
  /\ IF blank(input) THEN NoChange
     ELSE LET updated == spread(savedMaps, currentMap,
                                [get(savedMaps, currentMap) EXCEPT !.name = trim(input.text)])
          IN Turn(updated, currentMap, markers, shapes, storage, FALSE)

\* handleRenameMap()
handleRenameMap(input) ==
  /\ alert' = NoAlert
  /\ UNCHANGED <<clock, csvReaders, imageReaders>>
  /\ IF blank(input) THEN NoChange
     ELSE LET updated == spread(savedMaps, currentMap,
                                [get(savedMaps, currentMap) EXCEPT !.name = trim(input.text)])
          IN Turn(updated, currentMap, markers, shapes, JSONstringify(updated), FALSE)

\* variant: no guard on the default key
handleDeleteMapNoGuard(confirmed) ==
  /\ UNCHANGED <<clock, csvReaders, imageReaders>>
  /\ IF ~confirmed
       THEN NoChange /\ alert' = Alert("Delete this map?")
     ELSE LET updated == deleteKey(savedMaps, currentMap)
              nextMap == IF Len(updated) > 0 THEN ObjectKeys(updated)[1] ELSE DefaultKey
          IN /\ Turn(updated, nextMap, markersOf(updated, nextMap), shapesOf(updated, nextMap),
                     JSONstringify(updated), TRUE)
             /\ alert' = Alert("Delete this map?")

\* variant: the marker and shape lists are not replaced by the next project's
handleDeleteMapKeepLists(confirmed) ==
  /\ UNCHANGED <<clock, csvReaders, imageReaders>>
  /\ IF currentMap = DefaultKey
       THEN NoChange /\ alert' = Alert("Can't delete default map")
     ELSE IF ~confirmed
       THEN NoChange /\ alert' = Alert("Delete this map?")
     ELSE LET updated == deleteKey(savedMaps, currentMap)
              nextMap == IF Len(updated) > 0 THEN ObjectKeys(updated)[1] ELSE DefaultKey
          IN /\ Turn(updated, nextMap, markers, shapes, JSONstringify(updated), TRUE)
             /\ alert' = Alert("Delete this map?")

\* handleDeleteMap()
handleDeleteMap(confirmed) ==
  /\ UNCHANGED <<clock, csvReaders, imageReaders>>
  /\ IF currentMap = DefaultKey
       THEN NoChange /\ alert' = Alert("Can't delete default map")
     ELSE IF ~confirmed
       THEN NoChange /\ alert' = Alert("Delete this map?")
     ELSE LET updated == deleteKey(savedMaps, currentMap)
              nextMap == IF Len(updated) > 0 THEN ObjectKeys(updated)[1] ELSE DefaultKey
          IN /\ Turn(updated, nextMap, markersOf(updated, nextMap), shapesOf(updated, nextMap),
                     JSONstringify(updated), TRUE)
             /\ alert' = Alert("Delete this map?")

(* ----------------------------- specification --------------------------- *)
MarkerIds == {markers[k].id : k \in 1..Len(markers)}

\* exportCSV(): the text handed to the download link
exportCSV ==
  /\ download' = markersToCSVString(markers)
  /\ alert' = NoAlert
  /\ NoChange
  /\ UNCHANGED <<clock, csvReaders, imageReaders, searchTerm, selectedCategory>>

Click ==
  /\ UNCHANGED <<download, searchTerm, selectedCategory>>
  /\ \E p \in ClickPoints, inSearchBar \in BOOLEAN : AddMarker(p[1], p[2], inSearchBar)
TextChange ==
  /\ UNCHANGED <<download, searchTerm, selectedCategory>>
  /\ \E id \in MarkerIds, e \in EditInputs : handleTextChange(id, e[1], e[2])
DeleteMarker ==
  /\ UNCHANGED <<download, searchTerm, selectedCategory>>
  /\ \E id \in MarkerIds : deleteMarker(id)
ImageUpload ==
  /\ UNCHANGED <<download, searchTerm, selectedCategory>>
  /\ \E id \in MarkerIds, payload \in ImagePayloads, hasFile \in BOOLEAN :
       /\ Cardinality(imageReaders) < MaxReaders
       /\ handleImageUpload(id, payload, hasFile)
ImageLoaded ==
  /\ UNCHANGED <<download, searchTerm, selectedCategory>>
  /\ \E r \in imageReaders : imageLoaded(r)
FileSelected ==
  /\ UNCHANGED <<download, searchTerm, selectedCategory>>
  /\ \E text \in CsvFiles, hasFile \in BOOLEAN : onFileSelected(text, hasFile)
CsvLoaded ==
  /\ UNCHANGED <<download, searchTerm, selectedCategory>>
  /\ \E r \in csvReaders : csvLoaded(r)
ShapeCreated ==
  /\ UNCHANGED <<download, searchTerm, selectedCategory>>
  /\ \E g \in ShapeGeoms : shapeCreated(g)
ShapeEdited ==
  /\ UNCHANGED <<download, searchTerm, selectedCategory>>
  /\ \E k \in 1..Len(shapes), g \in ShapeGeoms : shapeEdited(k, g)
ShapeDeleted ==
  /\ UNCHANGED <<download, searchTerm, selectedCategory>>
  /\ \E k \in 1..Len(shapes) : shapeDeleted(k)
SelectMap ==
  /\ UNCHANGED <<download, searchTerm, selectedCategory>>
  /\ \E mapId \in {savedMaps[k].key : k \in 1..Len(savedMaps)} : handleSelectMap(mapId)
CreateMap ==
  /\ UNCHANGED <<download, searchTerm, selectedCategory>>
  /\ \E input \in PromptInputs : handleCreateMap(input)
RenameMap ==
  /\ UNCHANGED <<download, searchTerm, selectedCategory>>
  /\ \E input \in PromptInputs : handleRenameMap(input)
DeleteMap ==
  /\ UNCHANGED <<download, searchTerm, selectedCategory>>
  /\ \E confirmed \in BOOLEAN : handleDeleteMap(confirmed)

\* the synchronous handlers and the page load
Next ==
  \/ Click \/ TextChange \/ DeleteMarker
  \/ ShapeCreated \/ ShapeEdited \/ ShapeDeleted
  \/ SelectMap \/ CreateMap \/ RenameMap \/ DeleteMap
  \/ Reload

Spec == Init /\ [][Next]_vars

\* marker and project handlers together with the asynchronous CSV import
NextImport ==
  \/ Click \/ DeleteMarker
  \/ FileSelected \/ CsvLoaded
  \/ SelectMap \/ CreateMap

SpecImport == Init /\ [][NextImport]_vars

\* map clicks and the asynchronous CSV import alone
NextRows == Click \/ FileSelected \/ CsvLoaded

SpecRows == Init /\ [][NextRows]_vars

\* one place to click, one file to pick, one name to type
ListFile == join(<<CsvHeader, RowNotANumber, RowOrigin>>, <<NEWLINE>>)

ListClick ==
  /\ UNCHANGED <<download, searchTerm, selectedCategory>>
  /\ AddMarker(4, 2, FALSE)
ListFileSelected ==
  /\ UNCHANGED <<download, searchTerm, selectedCategory>>
  /\ onFileSelected(ListFile, TRUE)
ListCreateMap ==
  /\ UNCHANGED <<download, searchTerm, selectedCategory>>
  /\ handleCreateMap([ok |-> TRUE, text |-> <<" ", "A", " ">>])

\* every handler that changes the markers or shapes of the active project,
\* with the two kinds of file read, while projects are created and selected
NextLists ==
  \/ ListClick \/ TextChange \/ DeleteMarker
  \/ ImageUpload \/ ImageLoaded
  \/ ListFileSelected \/ CsvLoaded
  \/ ShapeCreated \/ ShapeDeleted
  \/ SelectMap \/ ListCreateMap

SpecLists == Init /\ [][NextLists]_vars

(* ------------------------ coordinates out of range --------------------- *)
\* clicks at the corner (90, 180) and one degree beyond a bound
RangePoints == {<<LatMax, LngMax>>, <<0 - 91 * UnitsPerDegree, 0>>, <<0, 181 * UnitsPerDegree>>}

\* a file with latitude 91, longitude -181, a latitude that is not a number
\* and the corner (-90, 180)
RangeFile ==
  join(<<<<"l","a","t",",","l","n","g">>, <<"9","1",",","0">>, <<"0",",","-","1","8","1">>,
         <<"x",",","0">>, <<"-","9","0",",","1","8","0">>>>, <<NEWLINE>>)

RangeClick ==
  /\ UNCHANGED <<download, searchTerm, selectedCategory>>
  /\ \E p \in RangePoints : AddMarker(p[1], p[2], FALSE)
RangeFileSelected ==
  /\ UNCHANGED <<download, searchTerm, selectedCategory>>
  /\ onFileSelected(RangeFile, TRUE)

\* clicks and an import with coordinates beyond the bounds, and every later
\* operation on the markers they leave
NextRange ==
  \/ RangeClick \/ RangeFileSelected \/ CsvLoaded
  \/ TextChange \/ DeleteMarker \/ ImageUpload \/ ImageLoaded
  \/ SelectMap \/ CreateMap

SpecRange == Init /\ [][NextRange]_vars

(* --------------------------- category counts --------------------------- *)
\* a marker read from an item that has no category: undefined, falsy
Unset == <<>>

\* the forEach of the Dashboard's useMemo: counts in order of first occurrence
RECURSIVE countEntries(_, _)
countEntries(mks, counts) ==
  IF mks = <<>> THEN counts
  ELSE LET cat == IF Head(mks).category = Unset THEN S_General ELSE Head(mks).category
           seen == \E i \in 1..Len(counts) : counts[i].name = cat
       IN countEntries(Tail(mks),
                       IF seen
                         THEN [i \in 1..Len(counts) |->
                                 IF counts[i].name = cat
                                   THEN [counts[i] EXCEPT !.value = @ + 1] ELSE counts[i]]
                       ELSE Append(counts, [name |-> cat, value |-> 1]))

\* data of Dashboard: Object.entries(counts) as { name, value }
data(mks) == countEntries(mks, <<>>)

\* catCounts of exportPDF: every key of CATEGORIES with the markers of that category
catCounts(mks) ==
  [i \in 1..Len(CATEGORIES) |->
     [name |-> CATEGORIES[i],
      value |-> Cardinality({k \in 1..Len(mks) : mks[k].category = CATEGORIES[i]})]]

\* exportPDF(): the summary lines of the report that is saved
exportPDF ==
  /\ download' = <<"pdf", catCounts(markers)>>
  /\ alert' = NoAlert
  /\ NoChange
  /\ UNCHANGED <<clock, csvReaders, imageReaders, searchTerm, selectedCategory>>

ExportPDF == exportPDF

CountCategories == {S_General, S_Restaurant, S_College, S_Event, S_Shop, Unset}

CountMarker(k, c) ==
  [id |-> k, position |-> <<0, 100 * k>>, title |-> S_NewMarker, description |-> <<>>,
   category |-> c, image |-> NoImage]

\* the marker lists of one to three markers a stored item can hold
CountLists ==
  UNION {{[k \in 1..n |-> CountMarker(k, cs[k])] : cs \in [1..n -> CountCategories]} : n \in 1..3}

InitCounts ==
  /\ markers \in CountLists
  /\ clock = 3
  /\ csvReaders = {}
  /\ imageReaders = {}
  /\ alert = NoAlert
  /\ download = NoItem
  /\ searchTerm = <<>>
  /\ selectedCategory = S_All
  /\ shapes = <<>>
  /\ currentMap = DefaultKey
  /\ savedMaps = persist(DefaultMaps, DefaultKey, markers, <<>>)
  /\ storage = JSONstringify(savedMaps)

SpecCounts == InitCounts /\ [][ExportPDF]_vars

(* ------------------------- the stored item at start -------------------- *)
\* what localStorage.getItem("maps") can return besides the text the effect
\* wrote: nothing, the empty string, text that is not JSON, the text null
StoredItems == {NoItem, Text(<<>>), Text(<<"{">>), Text(<<"n","u","l","l">>)}

\* something outside the component sets or removes the item
StorageWritten ==
  /\ \E item \in StoredItems : storage' = item
  /\ UNCHANGED <<markers, shapes, savedMaps, currentMap, clock, csvReaders, imageReaders, alert,
                 download, searchTerm, selectedCategory>>

\* page loads over items of any origin, with clicks and new projects between
NextStart ==
  \/ StorageWritten
  \/ Reload
  \/ (Mounted /\ Click)
  \/ (Mounted /\ CreateMap)

SpecStart == Init /\ [][NextStart]_vars

(* ------------------------- the CSV round trip -------------------------- *)
RoundTripTitles == {<<>>, <<"a">>, <<QUOTE>>, <<"a", COMMA, "b">>, <<"a", QUOTE, "b">>}
RoundTripDescriptions == {<<>>, <<"d">>}
RoundTripCategories == {S_General, S_Shop}
\* (0, 0) and (-1.5, 123.45678)
RoundTripFirst == <<0, 0>>
RoundTripSecond == <<0 - 150000, 12345678>>

RoundTripMarkers(id, pos) ==
  {[id |-> id, position |-> pos, title |-> t, description |-> d, category |-> c,
    image |-> NoImage] :
     t \in RoundTripTitles, d \in RoundTripDescriptions, c \in RoundTripCategories}

\* marker lists an import at clock reading 1 and later popup edits leave:
\* one or two markers, farther apart than the threshold
RoundTripLists ==
  {<<m>> : m \in RoundTripMarkers(1, RoundTripFirst) \cup RoundTripMarkers(1, RoundTripSecond)}
    \cup {<<m, n>> : m \in RoundTripMarkers(1, RoundTripFirst),
                     n \in RoundTripMarkers(2, RoundTripSecond)}

InitCSV ==
  /\ markers \in RoundTripLists
  /\ clock = 1
  /\ csvReaders = {}
  /\ imageReaders = {}
  /\ alert = NoAlert
  /\ download = NoItem
  /\ searchTerm = <<>>
  /\ selectedCategory = S_All
  /\ shapes = <<>>
  /\ currentMap = DefaultKey
  /\ savedMaps = persist(DefaultMaps, DefaultKey, markers, <<>>)
  /\ storage = JSONstringify(savedMaps)

ExportCSV == exportCSV

\* the exported file is picked for import while the marker list shown is empty
DownloadSelected ==
  /\ download # NoItem
  /\ markers = <<>>
  /\ onFileSelected(download, TRUE)
  /\ UNCHANGED <<download, searchTerm, selectedCategory>>

\* export, a new empty project, import of the exported file
NextCSV == ExportCSV \/ CreateMap \/ DownloadSelected \/ CsvLoaded

SpecCSV == InitCSV /\ [][NextCSV]_vars

(* --------------------------- the markers shown ------------------------- *)
\* String.prototype.includes
includes(s, q) == \E k \in 0..(Len(s) - Len(q)) : SubSeq(s, k + 1, k + Len(q)) = q

\* the test of the filter with the description left out
shownTitleOnly(m, term, cat) ==
  /\ includes(toLowerCase(m.title), toLowerCase(term))
  /\ (cat = S_All \/ m.category = cat)

\* the callback of markers.filter: textMatch && categoryMatch
shown(m, term, cat) ==
  LET textMatch == \/ includes(toLowerCase(m.title), toLowerCase(term))
                   \/ includes(toLowerCase(m.description), toLowerCase(term))
      categoryMatch == cat = S_All \/ m.category = cat
  IN textMatch /\ categoryMatch

\* Array.prototype.filter with that callback: a new array, in order
RECURSIVE filterShown(_, _, _)
filterShown(mks, term, cat) ==
  IF mks = <<>> THEN <<>>
  ELSE (IF shown(Head(mks), term, cat) THEN <<Head(mks)>> ELSE <<>>)
         \o filterShown(Tail(mks), term, cat)

\* filteredMarkers of the render: the markers the map shows
filteredMarkers == filterShown(markers, searchTerm, selectedCategory)

\* what the user types into the search box
SearchTerms == {<<>>, <<"C", "a">>, <<"b", "A", "R">>, <<"x">>}

\* the options of the category selector
CategoryOptions == {S_All} \cup {CATEGORIES[i] : i \in 1..Len(CATEGORIES)}

\* onChange of the search box
setSearchTerm(term) ==
  /\ searchTerm' = term
  /\ alert' = NoAlert
  /\ NoChange
  /\ UNCHANGED <<clock, csvReaders, imageReaders, download, selectedCategory>>

\* onChange of the category selector
setSelectedCategory(cat) ==
  /\ selectedCategory' = cat
  /\ alert' = NoAlert
  /\ NoChange
  /\ UNCHANGED <<clock, csvReaders, imageReaders, download, searchTerm>>

\* the Clear Filters button of the filter panel
resetFilters ==
  /\ searchTerm' = <<>>
  /\ selectedCategory' = S_All
  /\ alert' = NoAlert
  /\ NoChange
  /\ UNCHANGED <<clock, csvReaders, imageReaders, download>>

SearchTyped == \E term \in SearchTerms : setSearchTerm(term)

CategorySelected == \E cat \in CategoryOptions : setSelectedCategory(cat)

FiltersReset == resetFilters

\* markers as the popup edits leave them: titles, descriptions and categories
ShownMarkers ==
  {[id |-> 1, position |-> <<0, 100>>, title |-> <<"C", "a", "f", "e">>,
    description |-> <<>>, category |-> S_Restaurant, image |-> NoImage],
   [id |-> 2, position |-> <<0, 200>>, title |-> S_NewMarker,
    description |-> <<"c", "A", "f", "e", " ", "b", "a", "r">>, category |-> S_General,
    image |-> NoImage],
   [id |-> 3, position |-> <<0, 300>>, title |-> <<"B", "a", "r">>,
    description |-> <<"s", "h", "o", "p">>, category |-> S_Shop, image |-> NoImage]}

\* the lists of up to three of them, in any order, without repetition
ShownLists ==
  UNION {{l \in [1..n -> ShownMarkers] : \A i, j \in 1..n : l[i] = l[j] => i = j} : n \in 0..3}

InitShown ==
  /\ markers \in ShownLists
  /\ clock = 3
  /\ csvReaders = {}
  /\ imageReaders = {}
  /\ alert = NoAlert
  /\ download = NoItem
  /\ searchTerm = <<>>
  /\ selectedCategory = S_All
  /\ shapes = <<>>
  /\ currentMap = DefaultKey
  /\ savedMaps = persist(DefaultMaps, DefaultKey, markers, <<>>)
  /\ storage = JSONstringify(savedMaps)

\* the filter panel is used, markers are edited and deleted in between
NextShown == SearchTyped \/ CategorySelected \/ FiltersReset \/ TextChange \/ DeleteMarker

SpecShown == InitShown /\ [][NextShown]_vars

(* ------------------------------ properties ----------------------------- *)
\* (lat, lng) lies within the 5-metre threshold of some marker of the list
NearAny(lat, lng, mks) ==
  \E k \in 1..Len(mks) :
    withinThreshold(lat, lng, mks[k].position[1], mks[k].position[2], thresholdMeters)

InRange(lat, lng) ==
  /\ lat >= 0 - LatMax /\ lat <= LatMax
  /\ lng >= 0 - LngMax /\ lng <= LngMax

DuplicateClickAlert == "A marker already exists near this location"

\* C1: a map click within the threshold of a marker of the list shown is
\* rejected: the marker list, the shape list, the registry, the active key
\* and the stored item stay as they were, and the duplicate alert is shown.
C1_DuplicateClickRejected ==
  [][\A p \in ClickPoints :
       (AddMarker(p[1], p[2], FALSE) /\ NearAny(p[1], p[2], markers))
         => /\ UNCHANGED <<markers, shapes, savedMaps, currentMap, storage>>
            /\ alert'.kind = DuplicateClickAlert]_vars

\* a click was just rejected as a duplicate of the second of two markers
C1_Witness ==
  /\ alert.kind = DuplicateClickAlert
  /\ Len(markers) >= 2
  /\ \E p \in ClickPoints :
       /\ ~NearAny(p[1], p[2], SubSeq(markers, 1, 1))
       /\ NearAny(p[1], p[2], markers)

\* C2: a map click at an in-range point with no marker of the list shown
\* within the threshold appends exactly one marker at the end, with the
\* clicked position, title "New Marker", category "General", empty
\* description and no image; the markers before it keep value and order.
C2_AddAppendsDefaultMarker ==
  [][\A p \in ClickPoints :
       (AddMarker(p[1], p[2], FALSE) /\ InRange(p[1], p[2]) /\ ~NearAny(p[1], p[2], markers))
         => /\ Len(markers') = Len(markers) + 1
            /\ SubSeq(markers', 1, Len(markers)) = markers
            /\ LET m == markers'[Len(markers')]
               IN /\ m.position = p
                  /\ m.title = S_NewMarker
                  /\ m.category = S_General
                  /\ m.description = <<>>
                  /\ m.image = NoImage]_vars

\* the last marker of a list of two is the one the last clock reading created
C2_Witness ==
  /\ Len(markers) >= 2
  /\ markers[Len(markers)].id = clock
  /\ markers[Len(markers)].title = S_NewMarker
  /\ alert = NoAlert

KeyCount(obj, k) == Cardinality({i \in 1..Len(obj) : obj[i].key = k})

\* C3: the default key is in the registry and the active key is exactly one
\* key of the registry.
C3_DefaultAndActivePresent ==
  /\ KeyCount(savedMaps, DefaultKey) = 1
  /\ KeyCount(savedMaps, currentMap) = 1

\* deleting was refused on the default project while another project exists
C3_Witness ==
  /\ alert.kind = "Can't delete default map"
  /\ Len(savedMaps) > 1
  /\ currentMap = DefaultKey

\* the registry without the entry of key k, the other entries as they are
Without(obj, k) == SelectSeq(obj, LAMBDA e : e.key # k)

\* C4: deleting with the default project active fails and changes nothing;
\* a confirmed delete with another project active removes exactly that
\* entry, leaves the other entries as they are, activates the first
\* remaining key and shows that project's stored markers and shapes.
C4_DeleteProject ==
  [][\A confirmed \in BOOLEAN :
       handleDeleteMap(confirmed)
         => IF currentMap = DefaultKey
              THEN /\ UNCHANGED <<markers, shapes, savedMaps, currentMap, storage>>
                   /\ alert'.kind = "Can't delete default map"
            ELSE confirmed
                   => LET rest == Without(savedMaps, currentMap)
                      IN /\ savedMaps' = rest
                         /\ currentMap' = rest[1].key
                         /\ markers' = rest[1].val.markers
                         /\ shapes' = rest[1].val.shapes
                         /\ storage' = JSONstringify(rest)]_vars

\* a project was just deleted and the default project, which holds markers
\* and a shape, is shown again
C4_Witness ==
  /\ alert.kind = "Delete this map?"
  /\ currentMap = DefaultKey
  /\ Len(savedMaps) = 1
  /\ markers # <<>>
  /\ shapes # <<>>

\* C5: after every event turn the stored item is the registry, and the
\* registry entry of the active project holds the marker and shape lists shown.
C5_StorageMirrorsRegistry ==
  /\ storage = JSONstringify(savedMaps)
  /\ hasKey(savedMaps, currentMap)
  /\ get(savedMaps, currentMap).markers = markers
  /\ get(savedMaps, currentMap).shapes = shapes

\* a created project was renamed and holds a marker and a shape
C5_Witness ==
  /\ currentMap # DefaultKey
  /\ get(savedMaps, currentMap).name = <<"A">>
  /\ markers # <<>>
  /\ shapes # <<>>
  /\ Len(savedMaps) = 2

\* C6: after a process start the registry is the mapping that was stored:
\* every project keeps its name, markers and shapes, and the lists shown are
\* those of the active project.
C6_StartupKeepsStoredMapping ==
  [][Reload => /\ savedMaps' = JSONparse(storage)
               /\ markers' = markersOf(savedMaps', currentMap')
               /\ shapes' = shapesOf(savedMaps', currentMap')]_vars

\* the markers a csvLoaded step appended
Added == SubSeq(markers', Len(markers) + 1, Len(markers'))

\* C7: an import commits no row that is within the threshold of a marker of
\* the list it checks or of a row accepted earlier in the same import, so no
\* two markers committed by one import are within the threshold of each other.
C7_ImportSkipsDuplicates ==
  [][\A r \in csvReaders :
       csvLoaded(r)
         => /\ \A i \in 1..Len(Added) :
                 ~NearAny(Added[i].position[1], Added[i].position[2], r.markers)
            /\ \A i \in 1..Len(Added) :
                 ~NearAny(Added[i].position[1], Added[i].position[2], SubSeq(Added, 1, i - 1))]_vars

\* the data row passes the checks of the import against the list mks
RowAccepted(row, idx, mks) ==
  LET latRaw == cell(row, idx.lat)
      lngRaw == cell(row, idx.lng)
  IN /\ latRaw # <<>> /\ lngRaw # <<>>
     /\ ~invalidLatLng(Number(latRaw), Number(lngRaw))
     /\ ~NearAny(Number(latRaw).val, Number(lngRaw).val, mks)

\* the j-th smallest element of a set of numbers
Ranked(S, j) == CHOOSE x \in S : Cardinality({y \in S : y < x}) = j - 1

\* C8: for a file with latitude and longitude columns every data row gives
\* one outcome, a marker or a row error; the rows that pass the checks are
\* appended in row order in one update behind the markers that were there,
\* whatever the other rows are; the count reported is the number appended.
C8_ImportRowOutcomes ==
  [][\A r \in csvReaders :
       LET parsed == parseCSV(r.text)
           idx == headerIndex(parsed.headers)
           rows == parsed.rows
           accepted == {i \in 1..Len(rows) : RowAccepted(rows[i], idx, r.markers)}
       IN (csvLoaded(r) /\ idx.lat # 0 /\ idx.lng # 0)
            => /\ Len(markers') = Len(markers) + Cardinality(accepted)
               /\ SubSeq(markers', 1, Len(markers)) = markers
               /\ \A j \in 1..Cardinality(accepted) :
                    LET row == rows[Ranked(accepted, j)]
                    IN Added[j].position = <<Number(cell(row, idx.lat)).val,
                                             Number(cell(row, idx.lng)).val>>
               /\ alert'.kind = "Import complete."
               /\ alert'.imported = Cardinality(accepted)
               /\ Len(alert'.errors) = Len(rows) - Cardinality(accepted)
               /\ {alert'.errors[k].row : k \in 1..Len(alert'.errors)}
                    = {i + 1 : i \in (1..Len(rows)) \ accepted}]_vars

\* an import just added a marker behind an existing one, from a file whose
\* first and last data rows (lines 2 and 5) failed
C8_Witness ==
  /\ alert.kind = "Import complete."
  /\ alert.imported >= 1
  /\ Len(markers) > alert.imported
  /\ \E k \in 1..Len(alert.errors) : alert.errors[k].row = 2
  /\ \E k \in 1..Len(alert.errors) : alert.errors[k].row = 5

Tuple(m) == <<m.title, m.description, m.position[1], m.position[2], m.category>>
Tuples(mks) == {Tuple(mks[k]) : k \in 1..Len(mks)}

\* C9: when the export of the default project's marker list has been imported
\* into the empty marker list of a new project, the markers imported have
\* exactly the (title, description, latitude, longitude, category) tuples of
\* the exported list.
C9_CsvRoundTrip ==
  (/\ alert.kind = "Import complete."
   /\ currentMap # DefaultKey
   /\ download = markersToCSVString(markersOf(savedMaps, DefaultKey)))
    => /\ Len(markers) = Len(markersOf(savedMaps, DefaultKey))
       /\ Tuples(markers) = Tuples(markersOf(savedMaps, DefaultKey))

DistinctIds(mks) == \A i, j \in 1..Len(mks) : i # j => mks[i].id # mks[j].id

\* C10: the markers of one project have pairwise distinct ids.
C10_IdsUnique ==
  /\ DistinctIds(markers)
  /\ \A k \in 1..Len(savedMaps) : DistinctIds(savedMaps[k].val.markers)

\* the stored item is text that is not the project mapping
Malformed(item) == ~falsy(item) /\ item[1] = "text"

\* C11: a process start over a malformed stored item does not fail and
\* leaves the registry of a start without an item: the default project alone,
\* with no markers and no shapes.
C11_MalformedItemFallsBack ==
  [][(Reload /\ Malformed(storage))
       => /\ alert' = NoAlert
          /\ savedMaps' = DefaultMaps
          /\ markers' = <<>> /\ shapes' = <<>> /\ currentMap' = DefaultKey]_vars

KeySet(obj) == {obj[k].key : k \in 1..Len(obj)}

\* C12: creating a project with a non-blank name adds one entry under a key
\* the registry did not hold, with the trimmed name and no markers or shapes;
\* the key becomes active, the lists shown are empty, the stored item is the
\* new registry, and every entry that was there keeps its value.
C12_CreateProject ==
  [][\A input \in PromptInputs :
       (handleCreateMap(input) /\ ~blank(input))
         => /\ Len(savedMaps') = Len(savedMaps) + 1
            /\ Cardinality(KeySet(savedMaps') \ KeySet(savedMaps)) = 1
            /\ currentMap' \in KeySet(savedMaps') \ KeySet(savedMaps)
            /\ KeyCount(savedMaps', currentMap') = 1
            /\ get(savedMaps', currentMap')
                 = [name |-> trim(input.text), markers |-> <<>>, shapes |-> <<>>]
            /\ markers' = <<>> /\ shapes' = <<>>
            /\ storage' = JSONstringify(savedMaps')
            /\ \A k \in KeySet(savedMaps) : get(savedMaps', k) = get(savedMaps, k)]_vars

\* a project named from the input " A " was just created while the default
\* project held a marker and a shape
C12_Witness ==
  /\ currentMap = MapKey(clock)
  /\ get(savedMaps, currentMap).name = <<"A">>
  /\ markers = <<>> /\ shapes = <<>>
  /\ get(savedMaps, DefaultKey).markers # <<>>
  /\ get(savedMaps, DefaultKey).shapes # <<>>

\* the prompt was cancelled or its text holds nothing but spaces
NoName(input) == ~input.ok \/ \A i \in 1..Len(input.text) : input.text[i] = " "

\* C13: create and rename with a cancelled prompt, an empty name or a name
\* of spaces change neither the lists shown, the registry, the active key
\* nor the stored item.
C13_BlankNameRejected ==
  [][\A input \in PromptInputs :
       (NoName(input) /\ (handleCreateMap(input) \/ handleRenameMap(input)))
         => UNCHANGED <<markers, shapes, savedMaps, currentMap, storage>>]_vars

\* a prompt turn ended without a dialog while a created project with a
\* marker is active and the default project holds a shape
C13_Witness ==
  /\ alert = NoAlert
  /\ currentMap # DefaultKey
  /\ markers # <<>>
  /\ shapes = <<>>
  /\ get(savedMaps, DefaultKey).shapes # <<>>
  /\ \E input \in PromptInputs : NoName(input) /\ input.ok /\ input.text # <<>>

PositionsOf(mks) == [k \in 1..Len(mks) |-> mks[k].position]

AllInRange(mks) ==
  \A k \in 1..Len(mks) : InRange(mks[k].position[1], mks[k].position[2])

IsPrefix(a, b) == Len(a) <= Len(b) /\ SubSeq(b, 1, Len(a)) = a

\* a is b with some of its elements taken out
RECURSIVE IsSubseq(_, _)
IsSubseq(a, b) ==
  IF a = <<>> THEN TRUE
  ELSE IF b = <<>> THEN FALSE
  ELSE IF Head(a) = Head(b) THEN IsSubseq(Tail(a), Tail(b))
  ELSE IsSubseq(a, Tail(b))

\* C14: after every step every marker shown and every marker of every
\* project lies within latitude [-90, 90] and longitude [-180, 180], and the
\* positions a project holds are the ones it held, with new ones behind them
\* or with some removed: no step moves a marker.
C14_PositionsInRange ==
  [][/\ AllInRange(markers')
     /\ \A k \in 1..Len(savedMaps') : AllInRange(savedMaps'[k].val.markers)
     /\ \A key \in KeySet(savedMaps) \cap KeySet(savedMaps') :
          LET before == PositionsOf(get(savedMaps, key).markers)
              after == PositionsOf(get(savedMaps', key).markers)
          IN IsPrefix(before, after) \/ IsSubseq(after, before)]_vars

\* a click one degree beyond a bound was just refused while the list shown
\* holds the corner (-90, 180) that an import committed
C14_Witness ==
  /\ alert.kind = "Invalid latitude/longitude."
  /\ \E k \in 1..Len(markers) :
       /\ markers[k].position = <<0 - LatMax, LngMax>>
       /\ markers[k].title = S_ImportedMarker

\* markers of category c, those without a category counted as General
Expected(mks, c) ==
  Cardinality({k \in 1..Len(mks) :
                 mks[k].category = c \/ (c = S_General /\ mks[k].category = Unset)})

\* the entries map the name to the value, once
MapsTo(entries, name, value) ==
  /\ Cardinality({i \in 1..Len(entries) : entries[i].name = name}) = 1
  /\ \E i \in 1..Len(entries) : entries[i].name = name /\ entries[i].value = value

\* C15: the chart data and the summary of the saved report both map each of
\* the five categories to the number of markers of that category, the markers
\* without a category counted as General and a category without markers
\* mapped to 0.
C15_CategoryCounts ==
  (download # NoItem)
    => \A i \in 1..Len(CATEGORIES) :
         /\ MapsTo(data(markers), CATEGORIES[i], Expected(markers, CATEGORIES[i]))
         /\ MapsTo(download[2], CATEGORIES[i], Expected(markers, CATEGORIES[i]))

\* the query is contained in the text when case is disregarded
Contains(text, query) ==
  \E k \in 0..(Len(text) - Len(query)) :
    \A i \in 1..Len(query) : toLowerChar(text[k + i]) = toLowerChar(query[i])

\* the indexes of the markers the search box and the selector let through
Passing ==
  {k \in 1..Len(markers) :
     /\ Contains(markers[k].title, searchTerm) \/ Contains(markers[k].description, searchTerm)
     /\ selectedCategory = S_All \/ markers[k].category = selectedCategory}

\* C16: the markers shown are exactly the markers whose title or description
\* contains the query, case disregarded, and whose category is the selected
\* one (any category under "All"), in the order of the marker list; an empty
\* query lets every marker through; a turn that changes the query or the
\* selector leaves the marker list, the registry and the stored item alone.
C16_VisibleMarkers ==
  /\ [](/\ Len(filteredMarkers) = Cardinality(Passing)
        /\ \A j \in 1..Len(filteredMarkers) : filteredMarkers[j] = markers[Ranked(Passing, j)]
        /\ (searchTerm = <<>> /\ selectedCategory = S_All => filteredMarkers = markers))
  /\ [][searchTerm' # searchTerm \/ selectedCategory' # selectedCategory
          => UNCHANGED <<markers, shapes, savedMaps, currentMap, storage>>]_vars

\* a marker is shown for its description alone, in other letter case, while
\* another marker is hidden by the query and a third by the selector
C16_Witness ==
  /\ Len(markers) = 3
  /\ searchTerm = <<"C", "a">>
  /\ selectedCategory = S_General
  /\ Len(filteredMarkers) = 1
  /\ filteredMarkers[1].title = S_NewMarker

\* C17: selecting a project makes its key the active one and shows the
\* marker and shape lists stored under it; the registry and the stored item
\* are as before, so every project, the one left included, keeps its name,
\* markers and shapes, and selecting the project left again shows what it
\* showed before.
C17_SwitchProject ==
  [][\A mapId \in KeySet(savedMaps) :
       handleSelectMap(mapId)
         => /\ currentMap' = mapId
            /\ markers' = get(savedMaps, mapId).markers
            /\ shapes' = get(savedMaps, mapId).shapes
            /\ savedMaps' = savedMaps
            /\ storage' = storage
            /\ storage' = JSONstringify(savedMaps')
            /\ get(savedMaps', currentMap).markers = markers
            /\ get(savedMaps', currentMap).shapes = shapes]_vars

\* the default project is shown again while a created project holds other
\* markers and a shape
C17_Witness ==
  /\ currentMap = DefaultKey
  /\ Len(savedMaps) = 2
  /\ markers # <<>>
  /\ \E k \in KeySet(savedMaps) :
       /\ k # DefaultKey
       /\ get(savedMaps, k).markers # <<>>
       /\ get(savedMaps, k).markers # markers
       /\ get(savedMaps, k).shapes # shapes

\* C18: a turn that changes the marker list or the shape list shown while the
\* same project stays active (a marker added, edited, given an image or
\* deleted, imported rows committed, the shape list replaced) writes the new
\* lists into the entry of that project only: the registry keeps its keys,
\* and every other project has the same name, markers and shapes as before,
\* in the registry and in the stored item.
C18_ProjectIsolation ==
  [][(currentMap' = currentMap /\ (markers' # markers \/ shapes' # shapes))
       => /\ ObjectKeys(savedMaps') = ObjectKeys(savedMaps)
          /\ get(savedMaps', currentMap).markers = markers'
          /\ get(savedMaps', currentMap).shapes = shapes'
          /\ \A k \in KeySet(savedMaps) \ {currentMap} :
               /\ get(savedMaps', k) = get(savedMaps, k)
               /\ get(JSONparse(storage'), k) = get(JSONparse(storage), k)]_vars

\* a created project holds an imported marker with an image while the
\* default project holds a clicked marker and a shape
C18_Witness ==
  /\ currentMap # DefaultKey
  /\ get(savedMaps, DefaultKey).markers # <<>>
  /\ get(savedMaps, DefaultKey).shapes # <<>>
  /\ \E k \in 1..Len(markers) : markers[k].image # NoImage /\ markers[k].title = <<"a">>

\* C19: whatever happened between the selection of a file and the end of its
\* read, the rows an import commits are checked against the marker list shown
\* at the moment of the commit: no committed row is within the threshold of a
\* marker that list holds then.
C19_ImportChecksListAtCommit ==
  [][\A r \in csvReaders :
       csvLoaded(r)
         => \A i \in 1..Len(Added) :
              ~NearAny(Added[i].position[1], Added[i].position[2], markers)]_vars

\* the indexes of the markers a step changed
Changed == {k \in 1..Len(markers) : markers'[k] # markers[k]}

\* C20: the end of an image read creates and removes no marker and changes
\* nothing but the image of the one marker the read was started for; when the
\* project shown is no longer the one the read was started in, or no marker
\* shown has the id, every marker shown stays as it was.
C20_ImageReadCompletion ==
  [][\A r \in imageReaders :
       imageLoaded(r)
         => /\ Len(markers') = Len(markers)
            /\ \A k \in Changed :
                 markers[k].id = r.id /\ markers'[k] = [markers[k] EXCEPT !.image = r.result]
            /\ Cardinality(Changed) <= 1
            /\ (r.map # currentMap => markers' = markers)
            /\ (r.id \notin MarkerIds => markers' = markers)]_vars

====
